---- MODULE Spec2Model ----
(***************************************************************************)
(* The host registry of modules/renter/hostdb (hostentry.go): the map of   *)
(* all hosts, the map of active hosts, the scan queue, and the calls       *)
(* insertHost, removeHost, Host, ActiveHosts, AllHosts and IsOffline,      *)
(* running concurrently under the HostDB's reader/writer lock hdb.mu.      *)
(*                                                                         *)
(* hostentry.go calls code that lives in other files of the package:       *)
(* queueHostEntry, managedScanHost, RandomHosts, the scanner's worker, the *)
(* callers that hold hdb.mu around insertHost and removeHost, and the      *)
(* constants DefaultReliability and uptimeThreshold.  Those are modelled   *)
(* from the design document (spec.md sections 4.2, 4.3 and 5).             *)
(***************************************************************************)
EXTENDS Integers, Sequences, FiniteSets, TLC

(* ------------------------------ bounds ------------------------------- *)

\* The clock runs from 0 to MaxTime, in units of three days.
MaxTime == 2
\* The consensus block height runs from 0 to MaxHeight.
MaxHeight == 1
\* The number of hostEntry objects of one address that are referenced at the
\* same time (by the registry, the queue, a worker or IsOffline).
MaxEntries == 2
\* The largest sample size a caller of RandomHosts asks for.
MaxSample == 3

(* ------------------------- program constants ------------------------- *)

\* The staleness threshold of IsOffline ("the last three days"), in units of
\* three days.
uptimeThreshold == 1
\* Reliability of a new entry, and the scanner's steps (spec.md 3, 4.3).
DefaultReliability == 2
MaxReliability == 4
ScanReward == 2
UnreachablePenalty == 2
\* Active membership needs Reliability above this floor (spec.md 3).
ActiveFloor == 1
\* Capacity of the scanner's bounded work queue (spec.md 4.3).
QueueCap == 1
\* sampleSize := 18 in AverageContractPrice.
sampleSize == 18

(* ------------------------------ values ------------------------------- *)

ValidAddrs == {"a1", "a2"}
\* An address NetAddress.IsValid rejects.
InvalidAddrs == {"bad"}
Addrs == ValidAddrs \cup InvalidAddrs
Keys == {"k1", "k2"}
Prices == {1, 2}

\* modules.HostDBEntry: the address, the public key, the advertised terms.
HostDBEntry == [NetAddress : Addrs, PublicKey : Keys, ContractPrice : Prices]

\* time.Time{}: the zero time lies further in the past than any threshold.
ZeroTime == 0 - (uptimeThreshold + 1)

\* The map value of an address that has no entry, and of one with no node.
NoEntry ==
  [id |-> 0, PublicKey |-> "none", ContractPrice |-> 0, FirstSeen |-> 0,
   Reliability |-> 0, LastScanned |-> ZeroTime, LastSeen |-> ZeroTime]
NoNode == [PublicKey |-> "none", ContractPrice |-> 0]

\* The call paths: ActiveHosts, IsOffline, the scanner's worker, Host,
\* AllHosts, a caller of insertHost and a caller of removeHost.
Procs == {"act", "off", "wrk", "get", "all", "ins", "rem"}

\* What a returned call leaves behind: its name, the address Host was asked
\* for, the branch the call took, its boolean result (found, offline), its
\* error, the sample or the listing it returned, the number of inline scans
\* it made, whether the scanned host answered, and the price it returned.
NoLast ==
  [op |-> "none", addr |-> "none", tag |-> "none", ok |-> FALSE, err |-> "nil",
   hosts |-> <<>>, all |-> {}, scans |-> 0, answered |-> FALSE, price |-> 0]

VARIABLES
  allHosts,     \* hdb.allHosts: address -> entry (NoEntry when absent)
  activeHosts,  \* hdb.activeHosts: address -> the node's HostDBEntry
  scanQueue,    \* the scanner's work queue: references to entries
  blockHeight,  \* hdb.blockHeight
  now,          \* the wall clock
  mu,           \* hdb.mu: the writer (or "none") and the set of readers
  pc,           \* where each call path stands
  loc,          \* the locals of IsOffline, ActiveHosts and the worker
  last          \* the call that returned last, with its arguments and result

vars == <<allHosts, activeHosts, scanQueue, blockHeight, now, mu, pc, loc, last>>
data == <<allHosts, activeHosts, scanQueue>>

Min(a, b) == IF a < b THEN a ELSE b
Max(a, b) == IF a > b THEN a ELSE b

\* time.Since(t)
Since(t) == now - t

\* NetAddress.IsValid() == nil
IsValid(addr) == addr \in ValidAddrs

(* ---------------------------- the lock ------------------------------- *)

\* A lock that lets a writer in while readers hold it.
CanLock_IgnoreReaders == mu.writer = "none"

CanLock == mu.writer = "none" /\ mu.readers = {}
CanRLock == mu.writer = "none"
Lock(p) == mu' = [mu EXCEPT !.writer = p]
Unlock == mu' = [mu EXCEPT !.writer = "none"]
RLock(p) == mu' = [mu EXCEPT !.readers = @ \cup {p}]
RUnlock(p) == mu' = [mu EXCEPT !.readers = @ \ {p}]

(* ------------------------- entry references -------------------------- *)

\* A *hostEntry: the entry's address and the serial number that tells the
\* objects made for one address apart.  An entry's id field is its serial.
NoLoc == [addr |-> "none", id |-> 0, ok |-> FALSE, n |-> 0]
Ref(addr, id) == [addr |-> addr, id |-> id]

\* The serials of the entries of addr something still points to: the
\* registry, the queue, the worker's job and the entry IsOffline holds.
LiveIds(addr) ==
  {allHosts[addr].id}
    \cup {scanQueue[i].id : i \in {k \in 1..Len(scanQueue) : scanQueue[k].addr = addr}}
    \cup {loc[p].id : p \in {q \in {"off", "wrk"} : loc[q].addr = addr}}
FreeIds(addr) == (1..MaxEntries) \ LiveIds(addr)
\* &hostEntry{...}: an object no live reference points to.
NewId(addr) == CHOOSE i \in FreeIds(addr) : \A j \in FreeIds(addr) : i <= j

\* Whether the registry still holds the entry a reference points to.
Owned(ref) == ref.id # 0 /\ allHosts[ref.addr].id = ref.id

NodeOf(e) == [PublicKey |-> e.PublicKey, ContractPrice |-> e.ContractPrice]

Init ==
  /\ allHosts = [a \in Addrs |-> NoEntry]
  /\ activeHosts = [a \in Addrs |-> NoNode]
  /\ scanQueue = <<>>
  /\ blockHeight = 0
  /\ now = 0
  /\ mu = [writer |-> "none", readers |-> {}]
  /\ pc = [p \in Procs |-> "idle"]
  /\ loc = [p \in Procs |-> NoLoc]
  /\ last = NoLast

(* ------------------------ the scanner's queue ------------------------ *)

\* queueHostEntry (spec.md 4.3, Enqueue): the queue is bounded; a request
\* that finds it full is dropped.
queueHostEntry(ref) ==
  scanQueue' = IF Len(scanQueue) < QueueCap THEN Append(scanQueue, ref) ELSE scanQueue

(* ---------------------------- insertHost ----------------------------- *)

\* The branch insertHost takes on a candidate.
InsertCase(host) ==
  IF ~IsValid(host.NetAddress) THEN "invalid"
  ELSE IF allHosts[host.NetAddress] = NoEntry THEN "new"
  ELSE IF allHosts[host.NetAddress].PublicKey = host.PublicKey THEN "dedup"
  ELSE "replace"

\* A new entry that counts the announcement as an answer: LastSeen is set
\* at creation.
NewEntry_SeenAtInsert(host) ==
  [id |-> NewId(host.NetAddress), PublicKey |-> host.PublicKey, ContractPrice |-> host.ContractPrice,
   FirstSeen |-> blockHeight, Reliability |-> DefaultReliability,
   LastScanned |-> ZeroTime, LastSeen |-> now]

\* h := &hostEntry{FirstSeen: hdb.blockHeight, HostDBEntry: host,
\*                 Reliability: DefaultReliability}
NewEntry(host) ==
  [id |-> NewId(host.NetAddress), PublicKey |-> host.PublicKey, ContractPrice |-> host.ContractPrice,
   FirstSeen |-> blockHeight, Reliability |-> DefaultReliability,
   LastScanned |-> ZeroTime, LastSeen |-> ZeroTime]

\* insertHost without the public-key guard of line 35.
insertHost_NoDedup(host) ==
  /\ last' = [NoLast EXCEPT !.op = "insertHost", !.tag = InsertCase(host)]
  /\ IF ~IsValid(host.NetAddress)
       THEN UNCHANGED data
       ELSE /\ allHosts' = [allHosts EXCEPT ![host.NetAddress] = NewEntry(host)]
            /\ queueHostEntry(Ref(host.NetAddress, NewEntry(host).id))
            /\ UNCHANGED activeHosts

\* insertHost that keeps a known host's statistics when its key changes.
insertHost_KeepStats(host) ==
  /\ last' = [NoLast EXCEPT !.op = "insertHost", !.tag = InsertCase(host)]
  /\ IF ~IsValid(host.NetAddress)
       THEN UNCHANGED data
       ELSE IF /\ allHosts[host.NetAddress] # NoEntry
               /\ host.PublicKey = allHosts[host.NetAddress].PublicKey
         THEN UNCHANGED data
         ELSE /\ allHosts' =
                   [allHosts EXCEPT ![host.NetAddress] =
                      IF allHosts[host.NetAddress] = NoEntry
                        THEN NewEntry(host)
                        ELSE [NewEntry(host) EXCEPT
                                !.FirstSeen = allHosts[host.NetAddress].FirstSeen,
                                !.Reliability = allHosts[host.NetAddress].Reliability]]
              /\ queueHostEntry(Ref(host.NetAddress, NewEntry(host).id))
              /\ UNCHANGED activeHosts

\* insertHost without the address check of line 29.
insertHost_NoValidation(host) ==
  /\ last' = [NoLast EXCEPT !.op = "insertHost", !.tag = InsertCase(host)]
  /\ IF /\ allHosts[host.NetAddress] # NoEntry
        /\ host.PublicKey = allHosts[host.NetAddress].PublicKey
       THEN UNCHANGED data
       ELSE /\ allHosts' = [allHosts EXCEPT ![host.NetAddress] = NewEntry(host)]
            /\ queueHostEntry(Ref(host.NetAddress, NewEntry(host).id))
            /\ UNCHANGED activeHosts

insertHost(host) ==
  /\ last' = [NoLast EXCEPT !.op = "insertHost", !.tag = InsertCase(host)]
  /\ IF ~IsValid(host.NetAddress)
       THEN UNCHANGED data
       ELSE IF /\ allHosts[host.NetAddress] # NoEntry
               /\ host.PublicKey = allHosts[host.NetAddress].PublicKey
         THEN UNCHANGED data
         ELSE /\ allHosts' = [allHosts EXCEPT ![host.NetAddress] = NewEntry(host)]
              /\ queueHostEntry(Ref(host.NetAddress, NewEntry(host).id))
              /\ UNCHANGED activeHosts

(* ---------------------------- removeHost ----------------------------- *)

\* How removeHost finds the address: in the active set, in the registry
\* only, or in neither.
RemoveCase(addr) ==
  IF activeHosts[addr] # NoNode THEN "active"
  ELSE IF allHosts[addr] # NoEntry THEN "present"
  ELSE "absent"

\* removeHost that reports a host it does not know as an error.
removeHost_ErrUnknown(addr) ==
  /\ activeHosts' = IF activeHosts[addr] # NoNode
                      THEN [activeHosts EXCEPT ![addr] = NoNode]
                      ELSE activeHosts
  /\ allHosts' = [allHosts EXCEPT ![addr] = NoEntry]
  /\ UNCHANGED scanQueue
  /\ last' = [NoLast EXCEPT !.op = "removeHost", !.tag = RemoveCase(addr),
                            !.err = IF allHosts[addr] = NoEntry THEN "unknown host" ELSE "nil"]

\* removeHost with delete(hdb.allHosts, addr) inside the if of line 56.
removeHost_OnlyActive(addr) ==
  /\ activeHosts' = IF activeHosts[addr] # NoNode
                      THEN [activeHosts EXCEPT ![addr] = NoNode]
                      ELSE activeHosts
  /\ allHosts' = IF activeHosts[addr] # NoNode
                    THEN [allHosts EXCEPT ![addr] = NoEntry]
                    ELSE allHosts
  /\ UNCHANGED scanQueue
  /\ last' = [NoLast EXCEPT !.op = "removeHost", !.err = "nil", !.tag = RemoveCase(addr)]

\* removeHost without delete(hdb.activeHosts, addr).
removeHost_KeepNode(addr) ==
  /\ UNCHANGED activeHosts
  /\ allHosts' = [allHosts EXCEPT ![addr] = NoEntry]
  /\ UNCHANGED scanQueue
  /\ last' = [NoLast EXCEPT !.op = "removeHost", !.err = "nil", !.tag = RemoveCase(addr)]

removeHost(addr) ==
  /\ activeHosts' = IF activeHosts[addr] # NoNode
                      THEN [activeHosts EXCEPT ![addr] = NoNode]
                      ELSE activeHosts
  /\ allHosts' = [allHosts EXCEPT ![addr] = NoEntry]
  /\ UNCHANGED scanQueue
  /\ last' = [NoLast EXCEPT !.op = "removeHost", !.err = "nil", !.tag = RemoveCase(addr)]

(* ------------- the callers of insertHost and removeHost -------------- *)

\* Mutating operations run under the exclusive lock (spec.md 5): the caller
\* locks, calls and unlocks, which no other critical section interleaves.
InsertCall(host) ==
  /\ CanLock
  /\ InsertCase(host) \in {"new", "replace"} => FreeIds(host.NetAddress) # {}
  /\ insertHost(host)
  /\ UNCHANGED <<blockHeight, now, mu, pc, loc>>

RemoveCall(addr) ==
  /\ CanLock
  /\ removeHost(addr)
  /\ UNCHANGED <<blockHeight, now, mu, pc, loc>>

(* ------------------------------- Host -------------------------------- *)

\* hdb.mu.Lock(); defer hdb.mu.Unlock()
Host(addr) ==
  /\ CanLock
  /\ last' = [NoLast EXCEPT !.op = "Host", !.addr = addr,
                            !.ok = (allHosts[addr] # NoEntry)]
  /\ UNCHANGED <<data, blockHeight, now, mu, pc, loc>>

(* ----------------------------- AllHosts ------------------------------ *)

\* AllHosts that lists the active hosts only.
AllHosts_ActiveOnly ==
  /\ CanRLock
  /\ last' = [NoLast EXCEPT !.op = "AllHosts",
                            !.all = {a \in Addrs : activeHosts[a] # NoNode}]
  /\ UNCHANGED <<data, blockHeight, now, mu, pc, loc>>

\* hdb.mu.RLock(); defer hdb.mu.RUnlock()
AllHosts ==
  /\ CanRLock
  /\ last' = [NoLast EXCEPT !.op = "AllHosts",
                            !.all = {a \in Addrs : allHosts[a] # NoEntry}]
  /\ UNCHANGED <<data, blockHeight, now, mu, pc, loc>>

(* ------------------------ scan-result update ------------------------- *)

\* What a probe's outcome does to the entry a scan was started on
\* (spec.md 4.3).  The registry owns its entries and removeHost destroys
\* them (spec.md 3, lifecycle): the outcome of a probe of an entry that the
\* registry no longer holds has nothing to be folded into.
ScannedEntry(e, ok) ==
  IF ok
    THEN [e EXCEPT !.LastScanned = now, !.LastSeen = now,
                   !.Reliability = Min(e.Reliability + ScanReward, MaxReliability)]
    ELSE [e EXCEPT !.LastScanned = now,
                   !.Reliability = Max(e.Reliability - UnreachablePenalty, 0)]

UpdateEntry(ref, ok) ==
  /\ UNCHANGED scanQueue
  /\ IF ~Owned(ref)
       THEN UNCHANGED <<allHosts, activeHosts>>
       ELSE LET a == ref.addr
                e == ScannedEntry(allHosts[a], ok)
            IN /\ allHosts' = [allHosts EXCEPT ![a] = e]
               /\ activeHosts' =
                    IF ok
                      THEN IF activeHosts[a] = NoNode
                             THEN [activeHosts EXCEPT ![a] = NodeOf(e)]
                             ELSE activeHosts
                      ELSE IF e.Reliability <= ActiveFloor
                             THEN [activeHosts EXCEPT ![a] = NoNode]
                             ELSE activeHosts

(* ------------------------ the scanner's worker ----------------------- *)

\* A worker takes a job off the queue and starts the probe, outside the lock.
WorkerDequeue ==
  /\ pc["wrk"] = "idle" /\ scanQueue # <<>>
  /\ scanQueue' = Tail(scanQueue)
  /\ loc' = [loc EXCEPT !["wrk"] = [NoLoc EXCEPT !.addr = Head(scanQueue).addr, !.id = Head(scanQueue).id]]
  /\ pc' = [pc EXCEPT !["wrk"] = "probe"]
  /\ UNCHANGED <<allHosts, activeHosts, blockHeight, now, mu, last>>

\* The probe ends (the host answered or not) and the worker folds the
\* outcome into the maps under the exclusive lock.
WorkerScanned(ok) ==
  /\ pc["wrk"] = "probe" /\ CanLock
  /\ UpdateEntry(Ref(loc["wrk"].addr, loc["wrk"].id), ok)
  /\ loc' = [loc EXCEPT !["wrk"] = NoLoc]
  /\ pc' = [pc EXCEPT !["wrk"] = "idle"]
  /\ UNCHANGED <<blockHeight, now, mu, last>>

\* The scanner queues a known host for another scan (spec.md 4.3, 8: the
\* scanner reports on a host again and again).
Rescan(addr) ==
  /\ CanLock
  /\ allHosts[addr] # NoEntry
  /\ queueHostEntry(Ref(addr, allHosts[addr].id))
  /\ scanQueue' # scanQueue
  /\ UNCHANGED <<allHosts, activeHosts, blockHeight, now, mu, pc, loc, last>>

(* ----------------------------- IsOffline ----------------------------- *)

\* The final comparison with >= for >.
OfflineResult_AtThreshold(lastSeen) == Since(lastSeen) >= uptimeThreshold

\* return time.Since(lastSeen) > uptimeThreshold
OfflineResult(lastSeen) == Since(lastSeen) > uptimeThreshold

\* The lookup without the return of line 132: an unknown host is handled
\* like a known one.
IsOfflineLookup_NoMissCheck(addr) ==
  /\ pc["off"] = "idle" /\ CanRLock
  /\ UNCHANGED <<data, blockHeight, now, mu>>
  /\ IF Since(allHosts[addr].LastScanned) > uptimeThreshold
       THEN /\ loc' = [loc EXCEPT !["off"] =
                          [NoLoc EXCEPT !.addr = addr, !.id = allHosts[addr].id]]
            /\ pc' = [pc EXCEPT !["off"] = "probe"]
            /\ UNCHANGED last
       ELSE /\ last' = [NoLast EXCEPT !.op = "IsOffline", !.tag = "fast",
                                      !.ok = OfflineResult(allHosts[addr].LastSeen)]
            /\ UNCHANGED <<pc, loc>>

\* The first critical section (the lookup), the unknown-host return, the
\* staleness test and the fast path's return.
IsOfflineLookup(addr) ==
  /\ pc["off"] = "idle" /\ CanRLock
  /\ UNCHANGED <<data, blockHeight, now, mu>>
  /\ IF allHosts[addr] = NoEntry
       THEN /\ last' = [NoLast EXCEPT !.op = "IsOffline",
                                      !.tag = "unknown", !.ok = FALSE]
            /\ UNCHANGED <<pc, loc>>
       ELSE IF Since(allHosts[addr].LastScanned) > uptimeThreshold
         THEN /\ loc' = [loc EXCEPT !["off"] =
                            [NoLoc EXCEPT !.addr = addr, !.id = allHosts[addr].id]]
              /\ pc' = [pc EXCEPT !["off"] = "probe"]
              /\ UNCHANGED last
         ELSE /\ last' = [NoLast EXCEPT !.op = "IsOffline",
                                        !.tag = "fast",
                                        !.ok = OfflineResult(allHosts[addr].LastSeen)]
              /\ UNCHANGED <<pc, loc>>

\* hdb.managedScanHost(entry): the probe of the entry found by the lookup
\* ends and its outcome is folded into the maps under the exclusive lock.
IsOfflineScanned(ok) ==
  /\ pc["off"] = "probe" /\ CanLock
  /\ UpdateEntry(Ref(loc["off"].addr, loc["off"].id), ok)
  /\ loc' = [loc EXCEPT !["off"].id = 0, !["off"].n = 1, !["off"].ok = ok]
  /\ pc' = [pc EXCEPT !["off"] = "scanned"]
  /\ UNCHANGED <<blockHeight, now, mu, last>>

\* The re-read without the return of line 147: a vanished entry leaves
\* lastSeen at the zero time and the final return decides.
IsOfflineReread_NoMissCheck ==
  /\ pc["off"] = "scanned" /\ CanRLock
  /\ UNCHANGED <<data, blockHeight, now, mu>>
  /\ last' = [NoLast EXCEPT
                !.op = "IsOffline",
                !.scans = loc["off"].n, !.answered = loc["off"].ok,
                !.tag = IF allHosts[loc["off"].addr] = NoEntry THEN "vanished" ELSE "slow",
                !.ok = OfflineResult(allHosts[loc["off"].addr].LastSeen)]
  /\ loc' = [loc EXCEPT !["off"] = NoLoc]
  /\ pc' = [pc EXCEPT !["off"] = "idle"]

\* The second critical section (the re-read of lastSeen), the
\* vanished-entry return and the final return.
IsOfflineReread ==
  /\ pc["off"] = "scanned" /\ CanRLock
  /\ UNCHANGED <<data, blockHeight, now, mu>>
  /\ last' = [NoLast EXCEPT
                !.op = "IsOffline",
                !.scans = loc["off"].n, !.answered = loc["off"].ok,
                !.tag = IF allHosts[loc["off"].addr] = NoEntry THEN "vanished" ELSE "slow",
                !.ok = IF allHosts[loc["off"].addr] = NoEntry
                         THEN FALSE
                         ELSE OfflineResult(allHosts[loc["off"].addr].LastSeen)]
  /\ loc' = [loc EXCEPT !["off"] = NoLoc]
  /\ pc' = [pc EXCEPT !["off"] = "idle"]

(* ------------------- RandomHosts and ActiveHosts --------------------- *)

ActiveSet == {a \in Addrs : activeHosts[a] # NoNode}

\* The draws of n hosts from a pool that keeps the hosts it gave.
RECURSIVE Draw_WithReplacement(_, _)
Draw_WithReplacement(pool, n) ==
  IF n = 0 \/ pool = {}
    THEN {<<>>}
    ELSE UNION {{<<a>> \o s : s \in Draw_WithReplacement(pool, n - 1)} : a \in pool}

\* The draws of n hosts: a drawn host leaves the pool until the draw ends
\* (spec.md 4.2).
RECURSIVE Draw(_, _)
Draw(pool, n) ==
  IF n = 0 \/ pool = {}
    THEN {<<>>}
    ELSE UNION {{<<a>> \o s : s \in Draw(pool \ {a}, n - 1)} : a \in pool}

\* RandomHosts(n, nil), under the lock it takes itself.
RandomHosts(n) ==
  /\ CanLock
  /\ \E s \in Draw(ActiveSet, n) :
       last' = [NoLast EXCEPT !.op = "RandomHosts", !.hosts = s]
  /\ UNCHANGED <<data, blockHeight, now, mu, pc, loc>>

\* numHosts := len(hdb.activeHosts), under the read lock
ActiveHostsCount ==
  /\ pc["act"] = "idle" /\ CanRLock
  /\ loc' = [loc EXCEPT !["act"].n = Cardinality(ActiveSet)]
  /\ pc' = [pc EXCEPT !["act"] = "sample"]
  /\ UNCHANGED <<data, blockHeight, now, mu, last>>

\* ActiveHosts that samples as many hosts as are active at sampling time.
ActiveHostsSample_Recount ==
  /\ pc["act"] = "sample" /\ CanLock
  /\ \E s \in Draw(ActiveSet, Cardinality(ActiveSet)) :
       last' = [NoLast EXCEPT !.op = "ActiveHosts", !.hosts = s]
  /\ loc' = [loc EXCEPT !["act"] = NoLoc]
  /\ pc' = [pc EXCEPT !["act"] = "idle"]
  /\ UNCHANGED <<data, blockHeight, now, mu>>

\* sortedHosts := hdb.RandomHosts(numHosts, nil)
ActiveHostsSample ==
  /\ pc["act"] = "sample" /\ CanLock
  /\ \E s \in Draw(ActiveSet, loc["act"].n) :
       last' = [NoLast EXCEPT !.op = "ActiveHosts", !.hosts = s]
  /\ loc' = [loc EXCEPT !["act"] = NoLoc]
  /\ pc' = [pc EXCEPT !["act"] = "idle"]
  /\ UNCHANGED <<data, blockHeight, now, mu>>

(* ----------------------- AverageContractPrice ----------------------- *)

\* totalPrice = totalPrice.Add(host.ContractPrice), over the sample
RECURSIVE TotalPrice(_)
TotalPrice(hosts) ==
  IF hosts = <<>>
    THEN 0
    ELSE activeHosts[Head(hosts)].ContractPrice + TotalPrice(Tail(hosts))

\* The division by the requested size for the size obtained.
AveragePrice_BySampleSize(hosts) ==
  IF Len(hosts) = 0 THEN 0 ELSE TotalPrice(hosts) \div sampleSize

\* if len(hosts) == 0 { return totalPrice }
\* return totalPrice.Div64(uint64(len(hosts)))
AveragePrice(hosts) ==
  IF Len(hosts) = 0 THEN 0 ELSE TotalPrice(hosts) \div Len(hosts)

\* hosts := hdb.RandomHosts(sampleSize, nil), which returns copies of the
\* sampled settings, and the average over them.
AverageContractPrice ==
  /\ CanLock
  /\ \E s \in Draw(ActiveSet, sampleSize) :
       last' = [NoLast EXCEPT !.op = "AverageContractPrice", !.hosts = s,
                              !.price = AveragePrice(s)]
  /\ UNCHANGED <<data, blockHeight, now, mu, pc, loc>>

(* ------------ the calls, one lock operation at a time ---------------- *)

\* Host: hdb.mu.Lock()
HostLock ==
  /\ pc["get"] = "idle" /\ CanLock
  /\ Lock("get")
  /\ pc' = [pc EXCEPT !["get"] = "locked"]
  /\ UNCHANGED <<data, blockHeight, now, loc, last>>

\* Host: the lookup, the return and the deferred hdb.mu.Unlock()
HostUnlock(addr) ==
  /\ pc["get"] = "locked"
  /\ last' = [NoLast EXCEPT !.op = "Host", !.addr = addr,
                            !.ok = (allHosts[addr] # NoEntry)]
  /\ Unlock
  /\ pc' = [pc EXCEPT !["get"] = "idle"]
  /\ UNCHANGED <<data, blockHeight, now, loc>>

\* AllHosts: hdb.mu.RLock()
AllHostsRLock ==
  /\ pc["all"] = "idle" /\ CanRLock
  /\ RLock("all")
  /\ pc' = [pc EXCEPT !["all"] = "rlocked"]
  /\ UNCHANGED <<data, blockHeight, now, loc, last>>

\* AllHosts: the listing, the return and the deferred hdb.mu.RUnlock()
AllHostsRUnlock ==
  /\ pc["all"] = "rlocked"
  /\ last' = [NoLast EXCEPT !.op = "AllHosts",
                            !.all = {a \in Addrs : allHosts[a] # NoEntry}]
  /\ RUnlock("all")
  /\ pc' = [pc EXCEPT !["all"] = "idle"]
  /\ UNCHANGED <<data, blockHeight, now, loc>>

\* ActiveHosts: hdb.mu.RLock()
ActiveHostsRLock ==
  /\ pc["act"] = "idle" /\ CanRLock
  /\ RLock("act")
  /\ pc' = [pc EXCEPT !["act"] = "rlocked"]
  /\ UNCHANGED <<data, blockHeight, now, loc, last>>

\* ActiveHosts: numHosts := len(hdb.activeHosts); hdb.mu.RUnlock()
ActiveHostsRUnlock ==
  /\ pc["act"] = "rlocked"
  /\ loc' = [loc EXCEPT !["act"].n = Cardinality(ActiveSet)]
  /\ RUnlock("act")
  /\ pc' = [pc EXCEPT !["act"] = "sample"]
  /\ UNCHANGED <<data, blockHeight, now, last>>

\* ActiveHosts: RandomHosts takes the lock
RandomHostsLock ==
  /\ pc["act"] = "sample" /\ CanLock
  /\ Lock("act")
  /\ pc' = [pc EXCEPT !["act"] = "locked"]
  /\ UNCHANGED <<data, blockHeight, now, loc, last>>

\* ActiveHosts: RandomHosts draws, unlocks and returns; return sortedHosts
RandomHostsUnlock ==
  /\ pc["act"] = "locked"
  /\ \E s \in Draw(ActiveSet, loc["act"].n) :
       last' = [NoLast EXCEPT !.op = "ActiveHosts", !.hosts = s]
  /\ Unlock
  /\ loc' = [loc EXCEPT !["act"] = NoLoc]
  /\ pc' = [pc EXCEPT !["act"] = "idle"]
  /\ UNCHANGED <<data, blockHeight, now>>

\* The caller of insertHost takes the exclusive lock.
InsertLock ==
  /\ pc["ins"] = "idle" /\ CanLock
  /\ Lock("ins")
  /\ pc' = [pc EXCEPT !["ins"] = "locked"]
  /\ UNCHANGED <<data, blockHeight, now, loc, last>>

\* insertHost(host) and the caller's unlock.
InsertUnlock(host) ==
  /\ pc["ins"] = "locked"
  /\ InsertCase(host) \in {"new", "replace"} => FreeIds(host.NetAddress) # {}
  /\ insertHost(host)
  /\ Unlock
  /\ pc' = [pc EXCEPT !["ins"] = "idle"]
  /\ UNCHANGED <<blockHeight, now, loc>>

\* The caller of removeHost takes the exclusive lock.
RemoveLock ==
  /\ pc["rem"] = "idle" /\ CanLock
  /\ Lock("rem")
  /\ pc' = [pc EXCEPT !["rem"] = "locked"]
  /\ UNCHANGED <<data, blockHeight, now, loc, last>>

\* removeHost(addr) and the caller's unlock.
RemoveUnlock(addr) ==
  /\ pc["rem"] = "locked"
  /\ removeHost(addr)
  /\ Unlock
  /\ pc' = [pc EXCEPT !["rem"] = "idle"]
  /\ UNCHANGED <<blockHeight, now, loc>>

\* The worker's probe ends with outcome ok and the worker takes the
\* exclusive lock.
WorkerLock(ok) ==
  /\ pc["wrk"] = "probe" /\ CanLock
  /\ Lock("wrk")
  /\ loc' = [loc EXCEPT !["wrk"].ok = ok]
  /\ pc' = [pc EXCEPT !["wrk"] = "locked"]
  /\ UNCHANGED <<data, blockHeight, now, last>>

\* The worker folds the outcome into the maps and unlocks.
WorkerUnlock ==
  /\ pc["wrk"] = "locked"
  /\ UpdateEntry(Ref(loc["wrk"].addr, loc["wrk"].id), loc["wrk"].ok)
  /\ Unlock
  /\ loc' = [loc EXCEPT !["wrk"] = NoLoc]
  /\ pc' = [pc EXCEPT !["wrk"] = "idle"]
  /\ UNCHANGED <<blockHeight, now, last>>

\* IsOffline: hdb.mu.RLock() of the lookup
IsOfflineRLock(addr) ==
  /\ pc["off"] = "idle" /\ CanRLock
  /\ RLock("off")
  /\ loc' = [loc EXCEPT !["off"] = [NoLoc EXCEPT !.addr = addr]]
  /\ pc' = [pc EXCEPT !["off"] = "rlocked"]
  /\ UNCHANGED <<data, blockHeight, now, last>>

\* IsOffline that keeps the read lock of the lookup while it scans.
IsOfflineRUnlock_HoldLock ==
  /\ pc["off"] = "rlocked"
  /\ UNCHANGED <<data, blockHeight, now>>
  /\ IF allHosts[loc["off"].addr] = NoEntry
       THEN /\ last' = [NoLast EXCEPT !.op = "IsOffline",
                                      !.tag = "unknown", !.ok = FALSE]
            /\ RUnlock("off")
            /\ loc' = [loc EXCEPT !["off"] = NoLoc]
            /\ pc' = [pc EXCEPT !["off"] = "idle"]
       ELSE IF Since(allHosts[loc["off"].addr].LastScanned) > uptimeThreshold
         THEN /\ loc' = [loc EXCEPT !["off"].id = allHosts[loc["off"].addr].id]
              /\ pc' = [pc EXCEPT !["off"] = "probe"]
              /\ UNCHANGED <<mu, last>>
         ELSE /\ last' = [NoLast EXCEPT !.op = "IsOffline", !.tag = "fast",
                                        !.ok = OfflineResult(allHosts[loc["off"].addr].LastSeen)]
              /\ RUnlock("off")
              /\ loc' = [loc EXCEPT !["off"] = NoLoc]
              /\ pc' = [pc EXCEPT !["off"] = "idle"]

\* IsOffline: the lookup, hdb.mu.RUnlock(), the unknown-host return, the
\* staleness test and the fast path's return.
IsOfflineRUnlock ==
  /\ pc["off"] = "rlocked"
  /\ RUnlock("off")
  /\ UNCHANGED <<data, blockHeight, now>>
  /\ IF allHosts[loc["off"].addr] = NoEntry
       THEN /\ last' = [NoLast EXCEPT !.op = "IsOffline",
                                      !.tag = "unknown", !.ok = FALSE]
            /\ loc' = [loc EXCEPT !["off"] = NoLoc]
            /\ pc' = [pc EXCEPT !["off"] = "idle"]
       ELSE IF Since(allHosts[loc["off"].addr].LastScanned) > uptimeThreshold
         THEN /\ loc' = [loc EXCEPT !["off"].id = allHosts[loc["off"].addr].id]
              /\ pc' = [pc EXCEPT !["off"] = "probe"]
              /\ UNCHANGED last
         ELSE /\ last' = [NoLast EXCEPT !.op = "IsOffline", !.tag = "fast",
                                        !.ok = OfflineResult(allHosts[loc["off"].addr].LastSeen)]
              /\ loc' = [loc EXCEPT !["off"] = NoLoc]
              /\ pc' = [pc EXCEPT !["off"] = "idle"]

\* hdb.managedScanHost(entry): the probe ends with outcome ok and the
\* exclusive lock is taken.
IsOfflineScanLock(ok) ==
  /\ pc["off"] = "probe" /\ CanLock
  /\ Lock("off")
  /\ loc' = [loc EXCEPT !["off"].ok = ok]
  /\ pc' = [pc EXCEPT !["off"] = "locked"]
  /\ UNCHANGED <<data, blockHeight, now, last>>

\* hdb.managedScanHost(entry): the outcome is folded into the maps, the
\* lock is released and the call returns.
IsOfflineScanUnlock ==
  /\ pc["off"] = "locked"
  /\ UpdateEntry(Ref(loc["off"].addr, loc["off"].id), loc["off"].ok)
  /\ Unlock
  /\ loc' = [loc EXCEPT !["off"].id = 0, !["off"].n = 1]
  /\ pc' = [pc EXCEPT !["off"] = "scanned"]
  /\ UNCHANGED <<blockHeight, now, last>>

\* IsOffline: hdb.mu.RLock() of the re-read
IsOfflineRereadRLock ==
  /\ pc["off"] = "scanned" /\ CanRLock
  /\ RLock("off")
  /\ pc' = [pc EXCEPT !["off"] = "reread"]
  /\ UNCHANGED <<data, blockHeight, now, loc, last>>

\* IsOffline: the re-read, hdb.mu.RUnlock(), the vanished-entry return and
\* the final return.
IsOfflineRereadRUnlock ==
  /\ pc["off"] = "reread"
  /\ RUnlock("off")
  /\ UNCHANGED <<data, blockHeight, now>>
  /\ last' = [NoLast EXCEPT
                !.op = "IsOffline",
                !.scans = loc["off"].n, !.answered = loc["off"].ok,
                !.tag = IF allHosts[loc["off"].addr] = NoEntry THEN "vanished" ELSE "slow",
                !.ok = IF allHosts[loc["off"].addr] = NoEntry
                         THEN FALSE
                         ELSE OfflineResult(allHosts[loc["off"].addr].LastSeen)]
  /\ loc' = [loc EXCEPT !["off"] = NoLoc]
  /\ pc' = [pc EXCEPT !["off"] = "idle"]

(* ------------------------- the environment --------------------------- *)

\* Time passes.  Critical sections and straight-line code take no time on
\* this scale: the clock moves only while every call path is idle or waits
\* for a probe.
Tick ==
  /\ now < MaxTime
  /\ \A p \in Procs : pc[p] \in {"idle", "probe"}
  /\ now' = now + 1
  /\ UNCHANGED <<data, blockHeight, mu, pc, loc, last>>

\* The consensus set grows by a block.
NewBlock ==
  /\ blockHeight < MaxHeight
  /\ blockHeight' = blockHeight + 1
  /\ UNCHANGED <<data, now, mu, pc, loc, last>>

\* The registry and the scanner.  Address a1 is offered with every key and
\* price, the other addresses with one.
RegHosts ==
  {h \in HostDBEntry : h.NetAddress = "a1" \/ (h.PublicKey = "k1" /\ h.ContractPrice = 1)}

Next ==
  \/ \E host \in RegHosts : InsertCall(host)
  \/ \E addr \in Addrs : RemoveCall(addr)
  \/ WorkerDequeue
  \/ \E ok \in BOOLEAN : WorkerScanned(ok)
  \/ NewBlock

Spec == Init /\ [][Next]_vars

\* Every call path, concurrently, at block height 0 and time 0, on
\* candidates of one price; IsOffline is asked about a1.
ConcHosts == {h \in RegHosts : h.ContractPrice = 1}

NextConc ==
  \/ \E host \in ConcHosts : InsertCall(host)
  \/ \E addr \in Addrs : RemoveCall(addr)
  \/ \E addr \in Addrs : Host(addr)
  \/ WorkerDequeue
  \/ \E ok \in BOOLEAN : WorkerScanned(ok)
  \/ IsOfflineLookup("a1")
  \/ \E ok \in BOOLEAN : IsOfflineScanned(ok)
  \/ IsOfflineReread
  \/ \E n \in 0..MaxSample : RandomHosts(n)
  \/ ActiveHostsCount
  \/ ActiveHostsSample

SpecConc == Init /\ [][NextConc]_vars

\* IsOffline against the registry, the scanner and the clock, with the
\* candidates of address a1.
OfflineHosts == {h \in ConcHosts : h.NetAddress = "a1"}

NextOffline ==
  \/ \E host \in OfflineHosts : InsertCall(host)
  \/ \E addr \in Addrs : RemoveCall(addr)
  \/ WorkerDequeue
  \/ \E ok \in BOOLEAN : WorkerScanned(ok)
  \/ \E addr \in Addrs : IsOfflineLookup(addr)
  \/ \E ok \in BOOLEAN : IsOfflineScanned(ok)
  \/ IsOfflineReread
  \/ Tick

SpecOffline == Init /\ [][NextOffline]_vars

\* The sampling calls against the registry and the scanner, on candidates
\* of one key and both prices.
SampleHosts == {h \in RegHosts : h.PublicKey = "k1"}

NextSample ==
  \/ \E host \in SampleHosts : InsertCall(host)
  \/ \E addr \in Addrs : RemoveCall(addr)
  \/ WorkerDequeue
  \/ \E ok \in BOOLEAN : WorkerScanned(ok)
  \/ \E n \in 0..MaxSample : RandomHosts(n)
  \/ ActiveHostsCount
  \/ ActiveHostsSample
  \/ AverageContractPrice

SpecSample == Init /\ [][NextSample]_vars

\* The life of the hosts of address a1: discovery, scans and rescans, the
\* listings and the liveness check, while time passes.
NextScenario ==
  \/ \E host \in OfflineHosts : InsertCall(host)
  \/ RemoveCall("a1")
  \/ Rescan("a1")
  \/ WorkerDequeue
  \/ \E ok \in BOOLEAN : WorkerScanned(ok)
  \/ ActiveHostsCount
  \/ ActiveHostsSample
  \/ AllHosts
  \/ IsOfflineLookup("a1")
  \/ \E ok \in BOOLEAN : IsOfflineScanned(ok)
  \/ IsOfflineReread
  \/ Tick

SpecScenario == Init /\ [][NextScenario]_vars

\* Every call path with its lock operations as steps of their own, on the
\* candidates and the address a1.
NextLock ==
  \/ HostLock
  \/ HostUnlock("a1")
  \/ AllHostsRLock
  \/ AllHostsRUnlock
  \/ ActiveHostsRLock
  \/ ActiveHostsRUnlock
  \/ RandomHostsLock
  \/ RandomHostsUnlock
  \/ InsertLock
  \/ \E host \in OfflineHosts : InsertUnlock(host)
  \/ RemoveLock
  \/ RemoveUnlock("a1")
  \/ WorkerDequeue
  \/ \E ok \in BOOLEAN : WorkerLock(ok)
  \/ WorkerUnlock
  \/ IsOfflineRLock("a1")
  \/ IsOfflineRUnlock
  \/ \E ok \in BOOLEAN : IsOfflineScanLock(ok)
  \/ IsOfflineScanUnlock
  \/ IsOfflineRereadRLock
  \/ IsOfflineRereadRUnlock

SpecLock == Init /\ [][NextLock]_vars

(* ============================== claims ============================== *)

Present(a) == allHosts[a] # NoEntry
Absent(a) == allHosts[a] = NoEntry /\ activeHosts[a] = NoNode
Range(q) == {q[i] : i \in 1..Len(q)}

\* A candidate whose address is valid and known under the candidate's key.
Known(host) ==
  /\ IsValid(host.NetAddress)
  /\ Present(host.NetAddress)
  /\ allHosts[host.NetAddress].PublicKey = host.PublicKey

\* A candidate whose address is valid and known under another key.
KeyChanged(host) ==
  /\ IsValid(host.NetAddress)
  /\ Present(host.NetAddress)
  /\ allHosts[host.NetAddress].PublicKey # host.PublicKey

\* C1 (dedup): insertHost of a candidate whose valid address is already in
\* the registry under the same public key changes nothing: the stored entry,
\* the registry, the active set and the scan queue stay as they were.
C1_Dedup ==
  [][\A host \in HostDBEntry :
       (InsertCall(host) /\ Known(host))
         => /\ allHosts'[host.NetAddress] = allHosts[host.NetAddress]
            /\ UNCHANGED <<allHosts, activeHosts, scanQueue>>]_vars

\* A known, scanned host of an earlier block was just offered again.
C1_Witness ==
  /\ last.op = "insertHost" /\ last.tag = "dedup"
  /\ ~Present("a2")
  /\ Present("a1")
  /\ allHosts["a1"].Reliability # DefaultReliability
  /\ allHosts["a1"].FirstSeen # blockHeight
  /\ allHosts["a1"].LastSeen # ZeroTime

\* What insertHost of a changed key does to the registry: a new entry
\* replaces the old one and no other address is touched.
Reinserted(host) ==
  /\ allHosts'[host.NetAddress].id # allHosts[host.NetAddress].id
  /\ allHosts'[host.NetAddress].FirstSeen = blockHeight
  /\ allHosts'[host.NetAddress].Reliability = DefaultReliability
  /\ allHosts'[host.NetAddress].PublicKey = host.PublicKey
  /\ allHosts'[host.NetAddress].ContractPrice = host.ContractPrice
  /\ allHosts'[host.NetAddress].LastScanned = ZeroTime
  /\ allHosts'[host.NetAddress].LastSeen = ZeroTime
  /\ \A b \in Addrs \ {host.NetAddress} : allHosts'[b] = allHosts[b]
  /\ {b \in Addrs : allHosts'[b] # NoEntry} = {b \in Addrs : Present(b)}

C3_Invalid ==
  [][\A host \in HostDBEntry :
       (InsertCall(host) /\ ~IsValid(host.NetAddress))
         => /\ UNCHANGED <<allHosts, activeHosts, scanQueue>>
            /\ last'.err = "nil"]_vars

\* An invalid candidate was just discarded by a registry that holds hosts.
C3_Witness ==
  /\ last.op = "insertHost" /\ last.tag = "invalid"
  /\ Present("a1") /\ activeHosts["a1"] # NoNode
  /\ scanQueue # <<>>
  /\ \A a \in InvalidAddrs : Absent(a)

\* C5 (removeHost is idempotent and never fails): removeHost returns nil
\* in every case; it leaves the address in neither map; and on an address
\* that is in neither map it changes nothing, so a second removal has no
\* further effect.
C5_RemoveIdempotent ==
  [][\A addr \in Addrs :
       RemoveCall(addr)
         => /\ last'.err = "nil"
            /\ allHosts'[addr] = NoEntry /\ activeHosts'[addr] = NoNode
            /\ Absent(addr) => UNCHANGED <<allHosts, activeHosts, scanQueue>>]_vars

\* An address that is in neither map was just removed from a registry that
\* holds another, active host.
C5_Witness ==
  /\ last.op = "removeHost" /\ last.tag = "absent"
  /\ Absent("a2")
  /\ Present("a1") /\ activeHosts["a1"] # NoNode

\* Some call of RandomHosts or the sampling step of ActiveHosts.
Sampled == (\E n \in 0..MaxSample : RandomHosts(n)) \/ ActiveHostsSample

C7_UnknownHost ==
  [][\A addr \in Addrs :
       (IsOfflineLookup(addr) /\ ~Present(addr))
         => /\ last'.op = "IsOffline" /\ last'.ok = FALSE /\ last'.scans = 0
            /\ pc'["off"] = "idle"
            /\ UNCHANGED <<allHosts, activeHosts, scanQueue, blockHeight, now, loc>>]_vars

\* IsOffline just returned false for an unknown address while another
\* address is known and stale.
C7_Witness ==
  /\ last.op = "IsOffline" /\ last.tag = "unknown" /\ ~last.ok
  /\ pc["off"] = "idle"
  /\ Present("a1") /\ Since(allHosts["a1"].LastScanned) > uptimeThreshold

\* C8 (fast path): for an entry scanned within the threshold IsOffline
\* returns at once, with no scan: false when LastSeen is within the
\* threshold too, true when LastSeen is older; the values of the first
\* critical section decide.
C8_FastPath ==
  [][\A addr \in Addrs :
       (/\ IsOfflineLookup(addr)
        /\ Present(addr)
        /\ Since(allHosts[addr].LastScanned) <= uptimeThreshold)
         => /\ last'.op = "IsOffline" /\ last'.scans = 0
            /\ pc'["off"] = "idle"
            /\ UNCHANGED <<allHosts, activeHosts, scanQueue, loc>>
            /\ Since(allHosts[addr].LastSeen) <= uptimeThreshold => last'.ok = FALSE
            /\ Since(allHosts[addr].LastSeen) > uptimeThreshold => last'.ok = TRUE]_vars

\* IsOffline just reported offline a host that answered long ago and did
\* not answer its latest scan.
C8_Witness ==
  /\ last.op = "IsOffline" /\ last.tag = "fast" /\ last.ok
  /\ Present("a1")
  /\ allHosts["a1"].LastSeen # ZeroTime
  /\ Since(allHosts["a1"].LastSeen) > uptimeThreshold
  /\ Since(allHosts["a1"].LastScanned) <= uptimeThreshold

\* C9 as stated (slow path): for an entry not scanned within the threshold
\* IsOffline makes exactly one inline scan before it returns, its result
\* comes from the LastSeen the registry holds at the re-read, and a host
\* that answered that scan is reported not offline.
C9_AsStated ==
  [][/\ \A addr \in Addrs :
          (/\ IsOfflineLookup(addr)
           /\ Present(addr)
           /\ Since(allHosts[addr].LastScanned) > uptimeThreshold)
            => (pc'["off"] = "probe" /\ UNCHANGED last)
     /\ (IsOfflineReread /\ Present(loc["off"].addr))
          => /\ last'.op = "IsOffline" /\ last'.scans = 1
             /\ last'.ok = (Since(allHosts[loc["off"].addr].LastSeen) > uptimeThreshold)
             /\ loc["off"].ok => last'.ok = FALSE]_vars

RECURSIVE PriceSum(_)
PriceSum(S) ==
  IF S = {}
    THEN 0
    ELSE LET a == CHOOSE x \in S : TRUE
         IN activeHosts[a].ContractPrice + PriceSum(S \ {a})

\* No address occurs twice in a sample.
Distinct(hosts) ==
  \A i, j \in 1..Len(hosts) : i # j => hosts[i] # hosts[j]

\* C11 (AverageContractPrice): the call asks for a sample of 18 hosts; with
\* no active host it returns the zero price; otherwise it returns the sum
\* of the sampled hosts' contract prices divided by the number of hosts it
\* got, which is not zero.
C11_AveragePrice ==
  [][AverageContractPrice
       => /\ last'.op = "AverageContractPrice"
          /\ Len(last'.hosts) = Min(sampleSize, Cardinality(ActiveSet))
          /\ ActiveSet = {} => last'.price = 0
          /\ ActiveSet # {} =>
               /\ Len(last'.hosts) > 0
               /\ last'.price = PriceSum(Range(last'.hosts)) \div Len(last'.hosts)]_vars

\* The average of two active hosts of different prices was just returned.
C11_Witness ==
  /\ last.op = "AverageContractPrice"
  /\ Len(last.hosts) = 2 /\ Len(last.hosts) < sampleSize
  /\ activeHosts["a1"].ContractPrice = 2 /\ activeHosts["a2"].ContractPrice = 1
  /\ last.price = 1

C19_CountThenSample ==
  [][ActiveHostsSample
       => /\ last'.op = "ActiveHosts"
          /\ Len(last'.hosts) <= loc["act"].n
          /\ Distinct(last'.hosts)
          /\ Range(last'.hosts) \subseteq ActiveSet
          /\ loc["act"].n = Cardinality(ActiveSet) => Range(last'.hosts) = ActiveSet]_vars

\* ActiveHosts just returned one host although two are active: the second
\* became active between the count and the sample.
C19_Witness ==
  /\ last.op = "ActiveHosts"
  /\ Len(last.hosts) = 1
  /\ ActiveSet = {"a1", "a2"}

\* C14 (LastSeen <= LastScanned): in every reachable state every registry
\* entry was last seen no later than it was last scanned; an entry that was
\* never scanned has both times unset.
C14_SeenBeforeScanned ==
  \A a \in Addrs :
    Present(a) => /\ allHosts[a].LastSeen <= allHosts[a].LastScanned
                  /\ allHosts[a].LastScanned = ZeroTime => allHosts[a].LastSeen = ZeroTime

\* A host that answered a scan failed a later one.
C14_Witness ==
  /\ Present("a1")
  /\ allHosts["a1"].LastSeen # ZeroTime
  /\ allHosts["a1"].LastSeen < allHosts["a1"].LastScanned
  /\ allHosts["a1"].LastScanned = now

\* C15 as stated (active membership requirement): in every reachable state
\* the registry entry of every address in the active set has Reliability
\* above the active floor and has answered at least one scan (its LastSeen
\* is set).
C15_AsStated ==
  \A a \in ActiveSet :
    /\ Present(a)
    /\ allHosts[a].Reliability > ActiveFloor
    /\ allHosts[a].LastSeen # ZeroTime

\* C20 as stated (freshness at the final return): whenever IsOffline
\* returns through its final return statement, the registry entry whose
\* LastSeen decides the result was scanned within the staleness threshold.
C20_AsStated ==
  [][/\ \A addr \in Addrs :
          (/\ IsOfflineLookup(addr)
           /\ Present(addr)
           /\ last'.op = "IsOffline" /\ last'.tag = "fast")
            => Since(allHosts[addr].LastScanned) <= uptimeThreshold
     /\ (IsOfflineReread /\ Present(loc["off"].addr))
          => Since(allHosts[loc["off"].addr].LastScanned) <= uptimeThreshold]_vars

\* The entry after three failed scans in a row.
ThreeFailures(e) ==
  ScannedEntry(ScannedEntry(ScannedEntry(e, FALSE), FALSE), FALSE)

\* The worker folds the outcome ok of its probe into the entry of address a,
\* which the registry still holds.
Reported(a, ok) ==
  /\ WorkerScanned(ok)
  /\ loc["wrk"].addr = a
  /\ Owned(Ref(a, loc["wrk"].id))

Held(p) == mu.writer = p \/ p \in mu.readers

\* Process p holds hdb.mu in shared mode only.
HeldShared(p) == p \in mu.readers /\ mu.writer = "none"

\* C16 as stated (read-only operations take the lock in shared mode): Host,
\* AllHosts and the count of ActiveHosts hold only a read lock while they
\* are inside their critical sections.
C16_AsStated ==
  /\ pc["get"] \in {"locked", "rlocked"} => HeldShared("get")
  /\ pc["all"] \in {"locked", "rlocked"} => HeldShared("all")
  /\ pc["act"] = "rlocked" => HeldShared("act")

\* C17 (probes run outside the lock): while the worker or IsOffline probes
\* a host, that process holds hdb.mu in neither mode; and when every other
\* call path is idle or probing too, the lock is free, so that Host,
\* AllHosts, ActiveHosts and the callers of insertHost and removeHost can
\* take it.
C17_ProbeUnlocked ==
  /\ \A p \in {"wrk", "off"} : pc[p] = "probe" => ~Held(p)
  /\ (/\ \E p \in {"wrk", "off"} : pc[p] = "probe"
      /\ \A q \in Procs : pc[q] \in {"idle", "probe"})
       => /\ CanLock
          /\ ENABLED HostLock /\ ENABLED AllHostsRLock /\ ENABLED ActiveHostsRLock
          /\ ENABLED InsertLock /\ ENABLED RemoveLock

\* The worker and IsOffline both probe, and a listing and an insertion
\* have completed since IsOffline started its probe.
C17_Witness ==
  /\ pc["wrk"] = "probe" /\ pc["off"] = "probe"
  /\ pc["ins"] = "locked" /\ mu.writer = "ins"
  /\ last.op = "AllHosts"
  /\ ~Owned(Ref(loc["off"].addr, loc["off"].id))

====
